---- MODULE Spec2Model ----
(***************************************************************************)
(* The embedding store of src/database.py (class EmbeddingDatabase): two   *)
(* parallel Python lists (embeddings, metadata), the float32 matrix cached *)
(* for search, and the two persisted files embeddings.pkl / metadata.json. *)
(*                                                                         *)
(* Conventions.  Python lists are sequences; list position p (0-based) is  *)
(* sequence index p + 1.  A metadata dict is a function from key strings   *)
(* to values.  Vector components are small integers standing for floats.   *)
(* Cosine similarity is kept in thousandths (1000 = 1.0), truncated.       *)
(* An operation of the class is an operator from a store record            *)
(*   [embeddings, metadata, embeddings_array, embeddings_file,             *)
(*    metadata_file]                                                       *)
(* to [db |-> store afterwards, exc |-> "none" or the exception raised].   *)
(***************************************************************************)
EXTENDS Integers, Sequences, FiniteSets, TLC

\* ----------------------------------------------------------------------
\* Bounds of the model
\* ----------------------------------------------------------------------
MaxChunks == 2      \* chunks per add_pdf_embeddings call
MaxRecords == 3     \* records an add may leave in the store
MaxFaults == 1      \* file-system failures per behaviour
MaxTopK == 2        \* largest top_k asked of a search
MaxCalls == 2       \* calls made in an interleaved run

\* ----------------------------------------------------------------------
\* Inputs
\* ----------------------------------------------------------------------
Names == {"A", "B"}

\* item dicts handed to add_pdf_embeddings: 'text', 'embedding' and the
\* optional 'metadata' dict (<<>> when the key is missing or the dict empty).
\* Two items share a vector (ties), two share a text, one has another
\* dimensionality, one carries a page number, one carries extra metadata
\* under keys the store also uses.
PlainChunk == [text |-> "x", embedding |-> <<1, 0>>, metadata |-> <<>>]
PageChunk == [text |-> "y", embedding |-> <<0, 1>>, metadata |-> [page_num |-> 1]]
ShortChunk == [text |-> "x", embedding |-> <<1>>, metadata |-> <<>>]
KeyedChunk == [text |-> "z", embedding |-> <<1, 0>>,
               metadata |-> [chunk_id |-> 0, embedding_index |-> 0]]

\* an item whose extra metadata carries a document name
NamedChunk == [text |-> "z", embedding |-> <<1, 0>>, metadata |-> [pdf_name |-> "B"]]

Chunks == {PlainChunk, PageChunk, ShortChunk, KeyedChunk}

SeqsOf(items) == UNION { [1..n -> items] : n \in 0..MaxChunks }

ChunkSeqs == SeqsOf(Chunks)

Queries == { <<1, 0>>, <<1, 1>>, <<-1, 0>>, <<1>> }

\* thresholds in thousandths: 0.0 and the default 0.7 of search_similar_chunks
Thresholds == {0, 700}

TopKs == 1..MaxTopK

\* outcomes of the two file writes of _save_database
IoOutcomes == {"ok", "emb_open_fail", "emb_write_fail", "meta_open_fail", "meta_write_fail"}

\* ----------------------------------------------------------------------
\* State
\* ----------------------------------------------------------------------
VARIABLES
    embeddings,        \* self.embeddings
    metadata,          \* self.metadata
    embeddings_array,  \* self._embeddings_array
    embeddings_file,   \* the file embeddings.pkl
    metadata_file,     \* the file metadata.json
    instance,          \* "live": an EmbeddingDatabase object exists; "none": its constructor raised
    fresh,             \* the live instance was constructed on a location holding no records
    faults,            \* file-system failures so far
    last,              \* the last constructor or mutating call: arguments, exception raised
    answer,            \* the outcome of a search_similar_chunks call its caller still holds
    info,              \* the outcome of the statistics methods their caller still holds
    reply,             \* what CompanyChatbot._ask handed its caller, who still holds it
    wr,                \* per writing thread: where it is in a mutating call, and its locals
    sr,                \* where the searching thread is in search_similar_chunks, and its locals
    calls,             \* calls entered by the threads so far
    started            \* the store the threads found, and the mutating calls they entered, in order

vars == <<embeddings, metadata, embeddings_array, embeddings_file, metadata_file,
          instance, fresh, faults, last, answer, info, reply, wr, sr, calls, started>>

threads == <<wr, sr, calls, started>>

\* ----------------------------------------------------------------------
\* Values
\* ----------------------------------------------------------------------
None == [is_none |-> TRUE, rows |-> <<>>]
Array(rows) == [is_none |-> FALSE, rows |-> rows]

Absent == [st |-> "absent", data |-> <<>>]
Written(data) == [st |-> "ok", data |-> data]
Corrupt == [st |-> "corrupt", data |-> <<>>]

Ok(db) == [db |-> db, exc |-> "none"]
Raise(db, e) == [db |-> db, exc |-> e]

CurrentDb ==
    [embeddings |-> embeddings, metadata |-> metadata,
     embeddings_array |-> embeddings_array,
     embeddings_file |-> embeddings_file, metadata_file |-> metadata_file]

\* ----------------------------------------------------------------------
\* Serialisation
\* ----------------------------------------------------------------------
\* pickle.dump of a list of lists of floats: a stream of length-framed vectors
RECURSIVE PickleDump(_)
PickleDump(embs) ==
    IF embs = <<>> THEN <<>>
    ELSE <<Len(Head(embs))>> \o Head(embs) \o PickleDump(Tail(embs))

RECURSIVE PickleLoad(_)
PickleLoad(bytes) ==
    IF bytes = <<>> THEN <<>>
    ELSE LET n == bytes[1]
         IN <<SubSeq(bytes, 2, n + 1)>> \o PickleLoad(SubSeq(bytes, n + 2, Len(bytes)))

\* the keys of a metadata dict in insertion order: the four of the literal
\* in add_pdf_embeddings, then the extra ones
KeyOrder == <<"pdf_name", "chunk_id", "text", "embedding_index", "page_num">>

\* json.dump of one dict: its key/value pairs in order
JsonObject(meta) ==
    LET keys == SelectSeq(KeyOrder, LAMBDA k : k \in DOMAIN meta)
    IN [i \in 1..Len(keys) |-> <<keys[i], meta[keys[i]]>>]

JsonDump(metas) == [i \in 1..Len(metas) |-> JsonObject(metas[i])]

\* json.load of one object: a dict again
JsonDict(obj) ==
    [k \in {obj[i][1] : i \in 1..Len(obj)} |->
        obj[CHOOSE i \in 1..Len(obj) : obj[i][1] = k][2]]

JsonLoad(objs) == [i \in 1..Len(objs) |-> JsonDict(objs[i])]

\* ----------------------------------------------------------------------
\* _update_numpy_cache, _save_database, _load_database
\* ----------------------------------------------------------------------
\* np.array(list of lists, dtype=float32) needs rows of one length
Homogeneous(embs) == \A i, j \in 1..Len(embs) : Len(embs[i]) = Len(embs[j])

UpdateNumpyCache(db) ==
    IF db.embeddings # <<>>
    THEN IF Homogeneous(db.embeddings)
         THEN Ok([db EXCEPT !.embeddings_array = Array(db.embeddings)])
         ELSE Raise(db, "ValueError")
    ELSE Ok([db EXCEPT !.embeddings_array = None])

\* _save_database that forgets to rewrite metadata.json
SaveDatabaseNoMetadata(db, io) ==
    IF io = "ok"
    THEN UpdateNumpyCache([db EXCEPT !.embeddings_file = Written(PickleDump(db.embeddings))])
    ELSE Raise(db, "OSError")

SaveDatabase(db, io) ==
    CASE io = "emb_open_fail" -> Raise(db, "OSError")
      [] io = "emb_write_fail" -> Raise([db EXCEPT !.embeddings_file = Corrupt], "OSError")
      [] io = "meta_open_fail" ->
            Raise([db EXCEPT !.embeddings_file = Written(PickleDump(db.embeddings))], "OSError")
      [] io = "meta_write_fail" ->
            Raise([db EXCEPT !.embeddings_file = Written(PickleDump(db.embeddings)),
                             !.metadata_file = Corrupt], "OSError")
      [] OTHER ->
            UpdateNumpyCache([db EXCEPT !.embeddings_file = Written(PickleDump(db.embeddings)),
                                        !.metadata_file = Written(JsonDump(db.metadata))])

\* a load that swallows what it cannot read and starts over with empty files
LoadDatabaseForgiving(db) ==
    LET d0 == [db EXCEPT !.embeddings = <<>>, !.metadata = <<>>, !.embeddings_array = None]
    IN IF d0.embeddings_file.st = "corrupt" \/ d0.metadata_file.st = "corrupt"
       THEN Ok([d0 EXCEPT !.embeddings_file = Written(PickleDump(<<>>)),
                          !.metadata_file = Written(JsonDump(<<>>))])
       ELSE LET d1 == IF d0.embeddings_file.st = "ok"
                      THEN [d0 EXCEPT !.embeddings = PickleLoad(d0.embeddings_file.data)]
                      ELSE d0
                d2 == IF d1.metadata_file.st = "ok"
                      THEN [d1 EXCEPT !.metadata = JsonLoad(d1.metadata_file.data)]
                      ELSE d1
            IN UpdateNumpyCache(d2)

\* __init__ followed by _load_database, on the files of `db`
LoadDatabase(db) ==
    LET d0 == [db EXCEPT !.embeddings = <<>>, !.metadata = <<>>, !.embeddings_array = None]
    IN IF d0.embeddings_file.st = "corrupt" THEN Raise(d0, "UnpicklingError")
       ELSE LET d1 == IF d0.embeddings_file.st = "ok"
                      THEN [d0 EXCEPT !.embeddings = PickleLoad(d0.embeddings_file.data)]
                      ELSE d0
            IN IF d1.metadata_file.st = "corrupt" THEN Raise(d1, "JSONDecodeError")
               ELSE LET d2 == IF d1.metadata_file.st = "ok"
                              THEN [d1 EXCEPT !.metadata = JsonLoad(d1.metadata_file.data)]
                              ELSE d1
                    IN UpdateNumpyCache(d2)

\* ----------------------------------------------------------------------
\* clear_database, remove_pdf_embeddings, add_pdf_embeddings
\* ----------------------------------------------------------------------
\* a clear that empties the vectors and forgets the dicts
ClearDatabaseVectorsOnly(db, io) ==
    SaveDatabase([db EXCEPT !.embeddings = <<>>], io)

ClearDatabaseOp(db, io) ==
    SaveDatabase([db EXCEPT !.embeddings = <<>>, !.metadata = <<>>], io)

\* [i for i, meta in enumerate(self.metadata) if meta['pdf_name'] == pdf_name], 0-based
IndicesToRemove(metas, pdf_name) ==
    LET pos == SelectSeq([i \in 1..Len(metas) |-> i], LAMBDA i : metas[i].pdf_name = pdf_name)
    IN [k \in 1..Len(pos) |-> pos[k] - 1]

Reversed(s) == [k \in 1..Len(s) |-> s[Len(s) + 1 - k]]

\* del lst[p] for a 0-based p < len(lst)
Del(lst, p) == SubSeq(lst, 1, p) \o SubSeq(lst, p + 2, Len(lst))

\* for i in order: del self.embeddings[i]; del self.metadata[i]
RECURSIVE DeleteLoop(_, _, _)
DeleteLoop(embs, metas, order) ==
    IF order = <<>> THEN [embeddings |-> embs, metadata |-> metas, exc |-> "none"]
    ELSE LET p == Head(order)
         IN IF p >= Len(embs)
            THEN [embeddings |-> embs, metadata |-> metas, exc |-> "IndexError"]
            ELSE IF p >= Len(metas)
            THEN [embeddings |-> Del(embs, p), metadata |-> metas, exc |-> "IndexError"]
            ELSE DeleteLoop(Del(embs, p), Del(metas, p), Tail(order))

\* the order in which remove_pdf_embeddings deletes
DeletionOrder(indices) == Reversed(indices)

\* for i, meta in enumerate(self.metadata): meta['embedding_index'] = i
Reindex(metas) == [i \in 1..Len(metas) |-> [metas[i] EXCEPT !["embedding_index"] = i - 1]]

RemovePdfEmbeddingsOp(db, pdf_name, io) ==
    LET indices == IndicesToRemove(db.metadata, pdf_name)
        d == DeleteLoop(db.embeddings, db.metadata, DeletionOrder(indices))
        db1 == [db EXCEPT !.embeddings = d.embeddings, !.metadata = d.metadata]
    IN IF d.exc # "none" THEN Raise(db1, d.exc)
       ELSE SaveDatabase([db1 EXCEPT !.metadata = Reindex(db1.metadata)], io)

\* the dict built for item number i (0-based) once its vector is appended at
\* 0-based position p: the literal, then meta.update(item['metadata'])
NewMeta(pdf_name, i, item, p) ==
    item.metadata @@
    [pdf_name |-> pdf_name, chunk_id |-> i, text |-> item.text, embedding_index |-> p]

RECURSIVE AppendLoop(_, _, _, _, _)
AppendLoop(embs, metas, pdf_name, items, i) ==
    IF i >= Len(items) THEN [embeddings |-> embs, metadata |-> metas]
    ELSE LET item == items[i + 1]
             embs1 == Append(embs, item.embedding)
         IN AppendLoop(embs1,
                       Append(metas, NewMeta(pdf_name, i, item, Len(embs1) - 1)),
                       pdf_name, items, i + 1)

AddPdfEmbeddingsOp(db, pdf_name, embeddings_data, io1, io2) ==
    LET r == RemovePdfEmbeddingsOp(db, pdf_name, io1)
    IN IF r.exc # "none" THEN r
       ELSE LET a == AppendLoop(r.db.embeddings, r.db.metadata, pdf_name, embeddings_data, 0)
            IN SaveDatabase([r.db EXCEPT !.embeddings = a.embeddings,
                                         !.metadata = a.metadata], io2)

\* ----------------------------------------------------------------------
\* search_similar_chunks
\* ----------------------------------------------------------------------
Dot(a, b) ==
    LET RECURSIVE Sum(_)
        Sum(i) == IF i = 0 THEN 0 ELSE a[i] * b[i] + Sum(i - 1)
    IN Sum(Len(a))

\* largest r in lo..hi with r * r <= n
RECURSIVE Isqrt(_, _, _)
Isqrt(n, lo, hi) ==
    IF lo >= hi THEN lo
    ELSE LET mid == (lo + hi + 1) \div 2
         IN IF mid * mid <= n THEN Isqrt(n, mid, hi) ELSE Isqrt(n, lo, mid - 1)

\* sklearn cosine_similarity of two rows, in thousandths: both rows are
\* normalised (a row of norm 0 is left as it is) and multiplied
CosineSimilarity(a, b) ==
    LET d == Dot(a, b)
        na2 == Dot(a, a)
        nb2 == Dot(b, b)
    IN IF na2 = 0 \/ nb2 = 0 \/ d = 0 THEN 0
       ELSE LET r == Isqrt((d * d * 1000000) \div (na2 * nb2), 0, 1000)
            IN IF d > 0 THEN r ELSE 0 - r

\* the condition of the list comprehension
PassesThreshold(similarity, threshold) == similarity >= threshold

\* a sort that is not stable: an item goes in front of the items equal to it
InsertDescUnstable(sorted, x) ==
    LET before == SelectSeq(sorted, LAMBDA y : y.similarity > x.similarity)
        after == SelectSeq(sorted, LAMBDA y : y.similarity <= x.similarity)
    IN before \o <<x>> \o after

\* results.sort(key=similarity, reverse=True): a stable sort, so an item goes
\* behind every item of greater or equal similarity that precedes it
InsertDesc(sorted, x) ==
    LET before == SelectSeq(sorted, LAMBDA y : y.similarity >= x.similarity)
        after == SelectSeq(sorted, LAMBDA y : y.similarity < x.similarity)
    IN before \o <<x>> \o after

RECURSIVE SortDesc(_)
SortDesc(rs) ==
    IF rs = <<>> THEN <<>>
    ELSE InsertDesc(SortDesc(SubSeq(rs, 1, Len(rs) - 1)), rs[Len(rs)])

\* results[:top_k] for top_k >= 1
TopK(rs, top_k) == SubSeq(rs, 1, IF top_k < Len(rs) THEN top_k ELSE Len(rs))

\* one entry of the list comprehension; `row` records the 0-based row i of the
\* cached matrix the similarity was computed from
ResultItem(metas, i, similarity) ==
    [metadata |-> metas[i + 1], similarity |-> similarity,
     text |-> metas[i + 1].text, row |-> i]

SearchSimilarChunksOp(db, query_embedding, top_k, threshold) ==
    IF db.embeddings_array.is_none THEN [results |-> <<>>, exc |-> "none"]
    ELSE LET rows == db.embeddings_array.rows
         IN IF Len(rows[1]) # Len(query_embedding)
            THEN [results |-> <<>>, exc |-> "ValueError"]
            ELSE LET similarities == [i \in 1..Len(rows) |->
                                        CosineSimilarity(query_embedding, rows[i])]
                     hits == SelectSeq([i \in 1..Len(rows) |-> i - 1],
                                 LAMBDA i : PassesThreshold(similarities[i + 1], threshold))
                 IN IF \E k \in 1..Len(hits) : hits[k] >= Len(db.metadata)
                    THEN [results |-> <<>>, exc |-> "IndexError"]
                    ELSE LET found == [k \in 1..Len(hits) |->
                                ResultItem(db.metadata, hits[k], similarities[hits[k] + 1])]
                         IN [results |-> TopK(SortDesc(found), top_k), exc |-> "none"]

\* ----------------------------------------------------------------------
\* get_all_pdf_names, get_total_chunks, get_database_stats
\* ----------------------------------------------------------------------
\* the lists without repetition whose elements are those of `set`
ListsOfSet(set) ==
    {l \in [1..Cardinality(set) -> set] : \A i, j \in 1..Len(l) : l[i] = l[j] => i = j}

\* list(set(meta['pdf_name'] for meta in self.metadata)): the order in which a
\* set is iterated is not fixed, so every order is a possible outcome
GetAllPdfNames(db) ==
    ListsOfSet({db.metadata[i].pdf_name : i \in 1..Len(db.metadata)})

GetTotalChunks(db) == Len(db.embeddings)

\* the dict of get_database_stats, `pdf_names` being what get_all_pdf_names returned
GetDatabaseStats(db, pdf_names) ==
    [total_chunks |-> GetTotalChunks(db), total_pdfs |-> Len(pdf_names), pdf_names |-> pdf_names]

\* ----------------------------------------------------------------------
\* Actions: one call of a method, run to its end without interleaving
\* ----------------------------------------------------------------------
Call(op, pdf_name, embeddings_data, exc) ==
    [op |-> op, pdf_name |-> pdf_name, embeddings_data |-> embeddings_data, exc |-> exc]

NoAnswer ==
    [held |-> FALSE, query |-> <<>>, top_k |-> 0, threshold |-> 0,
     exc |-> "none", results |-> <<>>]

\* CompanyChatbot: the top_k it is constructed with, and the threshold _ask
\* searches with, in thousandths
ChatbotTopK == 6
AskThreshold == 250

\* what get_openai_embedding does for a question: it raises with a message,
\* or returns a vector
EmbedderOutcomes ==
    {[ok |-> FALSE, error |-> e, embedding |-> <<>>] : e \in {"timeout", "quota"}}
    \cup {[ok |-> TRUE, error |-> "", embedding |-> q] : q \in {<<1, 0>>, <<-1, 0>>, <<1>>}}

\* the dicts _ask returns; an f-string is the sequence of its parts
EmbeddingFailedReply(e) ==
    [answer |-> <<"Error embedding question: ", e>>, sources |-> {}]

NoChunksReply ==
    [answer |-> <<"Sorry, I couldn't find any relevant information in the documents.">>,
     sources |-> {}]

\* the dict returned once chunks were found: the answer comes from the
\* language model, the sources from the chunks
AnsweredReply(chunks) ==
    [answer |-> <<"(answer of the language model)">>,
     sources |-> {<<chunks[i].metadata.pdf_name,
                    IF "page_num" \in DOMAIN chunks[i].metadata
                    THEN chunks[i].metadata.page_num ELSE "?">> : i \in 1..Len(chunks)}]

\* _ask that treats a failing embedder as a search without matches
AskOpSwallowing(db, embedder) ==
    IF ~embedder.ok
    THEN [embedded |-> FALSE, searched |-> FALSE, exc |-> "none", out |-> NoChunksReply]
    ELSE LET r == SearchSimilarChunksOp(db, embedder.embedding, ChatbotTopK, AskThreshold)
         IN IF r.exc # "none"
            THEN [embedded |-> TRUE, searched |-> TRUE, exc |-> r.exc, out |-> NoChunksReply]
            ELSE [embedded |-> TRUE, searched |-> TRUE, exc |-> "none",
                  out |-> IF r.results = <<>> THEN NoChunksReply ELSE AnsweredReply(r.results)]

\* _ask: `embedded`, `searched` record whether the embedder gave a vector and
\* whether search_similar_chunks was called; `exc` is the exception _ask lets
\* through, `out` the dict it returns otherwise
AskOp(db, embedder) ==
    IF ~embedder.ok
    THEN [embedded |-> FALSE, searched |-> FALSE, exc |-> "none",
          out |-> EmbeddingFailedReply(embedder.error)]
    ELSE LET r == SearchSimilarChunksOp(db, embedder.embedding, ChatbotTopK, AskThreshold)
         IN IF r.exc # "none"
            THEN [embedded |-> TRUE, searched |-> TRUE, exc |-> r.exc, out |-> NoChunksReply]
            ELSE [embedded |-> TRUE, searched |-> TRUE, exc |-> "none",
                  out |-> IF r.results = <<>> THEN NoChunksReply ELSE AnsweredReply(r.results)]

NoReply ==
    [held |-> FALSE, embedded |-> FALSE, searched |-> FALSE, exc |-> "none",
     out |-> [answer |-> <<>>, sources |-> {}]]

NoInfo ==
    [held |-> FALSE, total_chunks |-> 0, pdf_names |-> <<>>,
     stats |-> [total_chunks |-> 0, total_pdfs |-> 0, pdf_names |-> <<>>]]

Answer(query, top_k, threshold, r) ==
    [held |-> TRUE, query |-> query, top_k |-> top_k, threshold |-> threshold,
     exc |-> r.exc, results |-> r.results]

\* the store record becomes the state of the object and of the files
Commit(db) ==
    /\ embeddings' = db.embeddings
    /\ metadata' = db.metadata
    /\ embeddings_array' = db.embeddings_array
    /\ embeddings_file' = db.embeddings_file
    /\ metadata_file' = db.metadata_file

\* a chosen write failure is one that happens, within the budget
Failure(io, r) ==
    /\ io # "ok" => (faults < MaxFaults /\ r.exc = "OSError")
    /\ faults' = IF r.exc = "OSError" THEN faults + 1 ELSE faults

\* threads that may run a mutating call
Writers == {"w1", "w2"}

IdleWriter ==
    [pc |-> "idle", op |-> "", pdf_name |-> "", items |-> <<>>, phase |-> "",
     order |-> <<>>, i |-> 0]

IdleSearcher ==
    [pc |-> "idle", query |-> <<>>, top_k |-> 0, threshold |-> 0,
     similarities |-> <<>>, i |-> 0, found |-> <<>>, held |-> <<>>]

Init ==
    /\ embeddings = <<>>
    /\ metadata = <<>>
    /\ embeddings_array = None
    /\ embeddings_file = Absent
    /\ metadata_file = Absent
    /\ instance = "live"
    /\ fresh = TRUE
    /\ faults = 0
    /\ last = Call("init", "", <<>>, "none")
    /\ answer = NoAnswer
    /\ info = NoInfo
    /\ reply = NoReply
    /\ wr = [t \in Writers |-> IdleWriter]
    /\ sr = IdleSearcher
    /\ calls = 0
    /\ started = [db |-> CurrentDb, calls |-> <<>>]

AddPdfEmbeddings(pdf_name, embeddings_data, io1, io2) ==
    /\ instance = "live"
    /\ ~answer.held /\ ~info.held /\ ~reply.held
    /\ io1 # "ok" => io2 = "ok"
    /\ (io1 # "ok" \/ io2 # "ok") => faults < MaxFaults
    /\ LET r == AddPdfEmbeddingsOp(CurrentDb, pdf_name, embeddings_data, io1, io2)
       IN /\ Failure(IF io1 # "ok" THEN io1 ELSE io2, r)
          /\ Len(r.db.embeddings) <= MaxRecords
          /\ Commit(r.db)
          /\ last' = Call("add", pdf_name, embeddings_data, r.exc)
    /\ UNCHANGED <<instance, fresh, answer, threads, info, reply>>

RemovePdfEmbeddings(pdf_name, io) ==
    /\ instance = "live"
    /\ ~answer.held /\ ~info.held /\ ~reply.held
    /\ LET r == RemovePdfEmbeddingsOp(CurrentDb, pdf_name, io)
       IN /\ Failure(io, r)
          /\ Commit(r.db)
          /\ last' = Call("remove", pdf_name, <<>>, r.exc)
    /\ UNCHANGED <<instance, fresh, answer, threads, info, reply>>

ClearDatabase(io) ==
    /\ instance = "live"
    /\ ~answer.held /\ ~info.held /\ ~reply.held
    /\ LET r == ClearDatabaseOp(CurrentDb, io)
       IN /\ Failure(io, r)
          /\ Commit(r.db)
          /\ last' = Call("clear", "", <<>>, r.exc)
    /\ UNCHANGED <<instance, fresh, answer, threads, info, reply>>

\* a search that persists the store before it reads the cache
SearchSimilarChunksSaving(query_embedding, top_k, threshold) ==
    /\ instance = "live"
    /\ ~answer.held /\ ~info.held /\ ~reply.held
    /\ LET r == SaveDatabase(CurrentDb, "ok")
       IN /\ Commit(r.db)
          /\ answer' = Answer(query_embedding, top_k, threshold,
                              SearchSimilarChunksOp(r.db, query_embedding, top_k, threshold))
    /\ UNCHANGED <<instance, fresh, faults, last, threads, info, reply>>

SearchSimilarChunks(query_embedding, top_k, threshold) ==
    /\ instance = "live"
    /\ ~answer.held /\ ~info.held /\ ~reply.held
    /\ answer' = Answer(query_embedding, top_k, threshold,
                        SearchSimilarChunksOp(CurrentDb, query_embedding, top_k, threshold))
    /\ UNCHANGED <<embeddings, metadata, embeddings_array, embeddings_file, metadata_file,
                   instance, fresh, faults, last, threads, info, reply>>

\* the caller of the search is done with the list it was given
Discard ==
    /\ answer.held \/ info.held \/ reply.held
    /\ answer' = NoAnswer
    /\ info' = NoInfo
    /\ reply' = NoReply
    /\ UNCHANGED <<embeddings, metadata, embeddings_array, embeddings_file, metadata_file,
                   instance, fresh, faults, last, threads>>

\* CompanyChatbot.ask_question(user_query), the embedder doing `embedder`
Ask(embedder) ==
    /\ instance = "live"
    /\ ~answer.held /\ ~info.held /\ ~reply.held
    /\ LET r == AskOp(CurrentDb, embedder)
       IN reply' = [held |-> TRUE, embedded |-> r.embedded, searched |-> r.searched,
                    exc |-> r.exc, out |-> r.out]
    /\ UNCHANGED <<embeddings, metadata, embeddings_array, embeddings_file, metadata_file,
                   instance, fresh, faults, last, answer, info, threads>>

\* get_total_chunks(), get_all_pdf_names() and get_database_stats(), called one
\* after the other by one caller, who holds the three values
Statistics ==
    /\ instance = "live"
    /\ ~answer.held /\ ~info.held /\ ~reply.held
    /\ \E pdf_names \in GetAllPdfNames(CurrentDb) :
          info' = [held |-> TRUE,
                   total_chunks |-> GetTotalChunks(CurrentDb),
                   pdf_names |-> pdf_names,
                   stats |-> GetDatabaseStats(CurrentDb, pdf_names)]
    /\ UNCHANGED <<embeddings, metadata, embeddings_array, embeddings_file, metadata_file,
                   instance, fresh, faults, last, answer, threads, reply>>

\* EmbeddingDatabase(db_path): a new object on the same location, in place of
\* the old one (a new run of main.py, a restart of the app)
Open ==
    /\ ~answer.held /\ ~info.held /\ ~reply.held
    /\ LET r == LoadDatabase(CurrentDb)
       IN /\ Commit(IF r.exc = "none" THEN r.db
                    ELSE [r.db EXCEPT !.embeddings = <<>>, !.metadata = <<>>])
          /\ instance' = IF r.exc = "none" THEN "live" ELSE "none"
          /\ fresh' = (r.exc = "none" /\ r.db.embeddings = <<>> /\ r.db.metadata = <<>>)
          /\ last' = Call("open", "", <<>>, r.exc)
    /\ UNCHANGED <<faults, answer, threads, info, reply>>

\* one of the two files disappears from the location while no call runs
\* (deleted, or left out when the directory is copied): a file-system failure
LoseFile(which) ==
    /\ ~answer.held /\ ~info.held /\ ~reply.held
    /\ faults < MaxFaults
    /\ faults' = faults + 1
    /\ IF which = "embeddings"
       THEN embeddings_file.st # "absent" /\ embeddings_file' = Absent
            /\ UNCHANGED metadata_file
       ELSE metadata_file.st # "absent" /\ metadata_file' = Absent
            /\ UNCHANGED embeddings_file
    /\ last' = Call("lose", which, <<>>, "none")
    /\ UNCHANGED <<embeddings, metadata, embeddings_array, instance, fresh, answer, threads, info, reply>>

\* the calls a caller can make, with items, write outcomes and queries from the given sets
Step(chunkSeqs, ios, queries, thresholds) ==
    \/ \E n \in Names, cs \in chunkSeqs, io1, io2 \in ios :
          AddPdfEmbeddings(n, cs, io1, io2)
    \/ \E n \in Names, io \in ios : RemovePdfEmbeddings(n, io)
    \/ \E io \in ios : ClearDatabase(io)
    \/ \E q \in queries, k \in TopKs, t \in thresholds : SearchSimilarChunks(q, k, t)
    \/ Statistics
    \/ Discard
    \/ Open

\* every kind of item, the file system never failing
Next == Step(ChunkSeqs, {"ok"}, Queries, Thresholds)

Spec == Init /\ [][Next]_vars

\* items whose extra metadata names a document, the file system never failing
NextNamed == Step(SeqsOf({PlainChunk, NamedChunk}), {"ok"}, {<<1, 0>>}, {0})

SpecNamed == Init /\ [][NextNamed]_vars

\* questions put to the chatbot that owns the store
NextAsk ==
    \/ Step(SeqsOf({PlainChunk, PageChunk}), {"ok"}, {<<1, 0>>}, {0})
    \/ \E e \in EmbedderOutcomes : Ask(e)

SpecAsk == Init /\ [][NextAsk]_vars

\* file-system failures, with two kinds of item and two queries
NextFaults ==
    \/ Step(SeqsOf({PageChunk, ShortChunk}), IoOutcomes, {<<1, 1>>, <<1>>}, {0})
    \/ \E which \in {"embeddings", "metadata"} : LoseFile(which)

SpecFaults == Init /\ [][NextFaults]_vars

\* ----------------------------------------------------------------------
\* The same methods, one statement at a time: a thread may be switched out
\* between two statements, and nothing in the class takes a lock
\* ----------------------------------------------------------------------
\* the call of thread t ends: it returned, or raised `exc`
Finish(t, exc) ==
    /\ wr' = [wr EXCEPT ![t] = IdleWriter]
    /\ last' = Call(wr[t].op, wr[t].pdf_name, wr[t].items, exc)

Goto(t, pc) == wr' = [wr EXCEPT ![t].pc = pc] /\ UNCHANGED last

\* a thread enters add_pdf_embeddings, remove_pdf_embeddings or clear_database
WStart(t, op, pdf_name, items) ==
    /\ instance = "live"
    /\ wr[t].pc = "idle"
    /\ calls < MaxCalls
    /\ calls' = calls + 1
    /\ wr' = [wr EXCEPT ![t] =
                [pc |-> IF op = "clear" THEN "clear_emb" ELSE "indices",
                 op |-> op, pdf_name |-> pdf_name, items |-> items,
                 phase |-> IF op = "clear" THEN "clear" ELSE "remove",
                 order |-> <<>>, i |-> 0]]
    /\ started' = [started EXCEPT !.calls = Append(@, Call(op, pdf_name, items, "none"))]
    /\ UNCHANGED <<embeddings, metadata, embeddings_array, embeddings_file, metadata_file,
                   instance, fresh, faults, last, answer, sr, info, reply>>

\* indices_to_remove = [...]
WIndices(t) ==
    /\ wr[t].pc = "indices"
    /\ LET order == DeletionOrder(IndicesToRemove(metadata, wr[t].pdf_name))
       IN wr' = [wr EXCEPT ![t].order = order,
                           ![t].pc = IF order = <<>> THEN "reindex" ELSE "del_emb"]
    /\ UNCHANGED <<embeddings, metadata, embeddings_array, embeddings_file, metadata_file,
                   instance, fresh, faults, last, answer, sr, calls, info, started, reply>>

\* del self.embeddings[i]
WDelEmbedding(t) ==
    /\ wr[t].pc = "del_emb"
    /\ LET p == Head(wr[t].order)
       IN IF p >= Len(embeddings)
          THEN Finish(t, "IndexError") /\ UNCHANGED embeddings
          ELSE embeddings' = Del(embeddings, p) /\ Goto(t, "del_meta")
    /\ UNCHANGED <<metadata, embeddings_array, embeddings_file, metadata_file,
                   instance, fresh, faults, answer, sr, calls, info, started, reply>>

\* del self.metadata[i]
WDelMetadata(t) ==
    /\ wr[t].pc = "del_meta"
    /\ LET p == Head(wr[t].order)
           rest == Tail(wr[t].order)
       IN IF p >= Len(metadata)
          THEN Finish(t, "IndexError") /\ UNCHANGED metadata
          ELSE /\ metadata' = Del(metadata, p)
               /\ wr' = [wr EXCEPT ![t].order = rest,
                                   ![t].pc = IF rest = <<>> THEN "reindex" ELSE "del_emb"]
               /\ UNCHANGED last
    /\ UNCHANGED <<embeddings, embeddings_array, embeddings_file, metadata_file,
                   instance, fresh, faults, answer, sr, calls, info, started, reply>>

\* for i, meta in enumerate(self.metadata): meta['embedding_index'] = i
WReindex(t) ==
    /\ wr[t].pc = "reindex"
    /\ metadata' = Reindex(metadata)
    /\ Goto(t, "save_emb")
    /\ UNCHANGED <<embeddings, embeddings_array, embeddings_file, metadata_file,
                   instance, fresh, faults, answer, sr, calls, info, started, reply>>

\* self.embeddings = []
WClearEmbeddings(t) ==
    /\ wr[t].pc = "clear_emb"
    /\ embeddings' = <<>>
    /\ Goto(t, "clear_meta")
    /\ UNCHANGED <<metadata, embeddings_array, embeddings_file, metadata_file,
                   instance, fresh, faults, answer, sr, calls, info, started, reply>>

\* self.metadata = []
WClearMetadata(t) ==
    /\ wr[t].pc = "clear_meta"
    /\ metadata' = <<>>
    /\ Goto(t, "save_emb")
    /\ UNCHANGED <<embeddings, embeddings_array, embeddings_file, metadata_file,
                   instance, fresh, faults, answer, sr, calls, info, started, reply>>

\* self.embeddings.append(item['embedding'])
WAppendEmbedding(t) ==
    /\ wr[t].pc = "append_emb"
    /\ embeddings' = Append(embeddings, wr[t].items[wr[t].i + 1].embedding)
    /\ Goto(t, "append_meta")
    /\ UNCHANGED <<metadata, embeddings_array, embeddings_file, metadata_file,
                   instance, fresh, faults, answer, sr, calls, info, started, reply>>

\* meta = {...}; meta.update(...); self.metadata.append(meta)
WAppendMetadata(t) ==
    /\ wr[t].pc = "append_meta"
    /\ LET i == wr[t].i
       IN /\ metadata' = Append(metadata,
                            NewMeta(wr[t].pdf_name, i, wr[t].items[i + 1], Len(embeddings) - 1))
          /\ wr' = [wr EXCEPT ![t].i = i + 1,
                              ![t].pc = IF i + 1 < Len(wr[t].items)
                                        THEN "append_emb" ELSE "save_emb"]
    /\ UNCHANGED <<embeddings, embeddings_array, embeddings_file, metadata_file,
                   instance, fresh, faults, last, answer, sr, calls, info, started, reply>>

\* with open(self.embeddings_file, 'wb') as f: pickle.dump(self.embeddings, f)
WSaveEmbeddings(t) ==
    /\ wr[t].pc = "save_emb"
    /\ embeddings_file' = Written(PickleDump(embeddings))
    /\ Goto(t, "save_meta")
    /\ UNCHANGED <<embeddings, metadata, embeddings_array, metadata_file,
                   instance, fresh, faults, answer, sr, calls, info, started, reply>>

\* with open(self.metadata_file, 'w') as f: json.dump(self.metadata, f)
WSaveMetadata(t) ==
    /\ wr[t].pc = "save_meta"
    /\ metadata_file' = Written(JsonDump(metadata))
    /\ Goto(t, "cache")
    /\ UNCHANGED <<embeddings, metadata, embeddings_array, embeddings_file,
                   instance, fresh, faults, answer, sr, calls, info, started, reply>>

\* self._update_numpy_cache(); then the method returns, or, in the remove
\* that add_pdf_embeddings begins with, the loop over the items starts
WUpdateCache(t) ==
    /\ wr[t].pc = "cache"
    /\ LET r == UpdateNumpyCache(CurrentDb)
       IN /\ embeddings_array' = r.db.embeddings_array
          /\ IF r.exc # "none" THEN Finish(t, r.exc)
             ELSE IF wr[t].op = "add" /\ wr[t].phase = "remove"
             THEN /\ wr' = [wr EXCEPT ![t].phase = "append",
                                      ![t].pc = IF wr[t].items = <<>>
                                                THEN "save_emb" ELSE "append_emb"]
                  /\ UNCHANGED last
             ELSE Finish(t, "none")
    /\ UNCHANGED <<embeddings, metadata, embeddings_file, metadata_file,
                   instance, fresh, faults, answer, sr, calls, info, started, reply>>

\* a thread enters search_similar_chunks
SStart(query_embedding, top_k, threshold) ==
    /\ instance = "live"
    /\ sr.pc = "idle"
    /\ ~answer.held /\ ~info.held /\ ~reply.held
    /\ calls < MaxCalls
    /\ calls' = calls + 1
    /\ sr' = [IdleSearcher EXCEPT !.pc = "check", !.query = query_embedding,
                                  !.top_k = top_k, !.threshold = threshold]
    /\ UNCHANGED <<embeddings, metadata, embeddings_array, embeddings_file, metadata_file,
                   instance, fresh, faults, last, answer, wr, info, started, reply>>

\* the search returns to its caller
SReturn(rs, exc) ==
    /\ answer' = Answer(sr.query, sr.top_k, sr.threshold, [results |-> rs, exc |-> exc])
    /\ sr' = IdleSearcher

\* if self._embeddings_array is None: return []
SCheck ==
    /\ sr.pc = "check"
    /\ IF embeddings_array.is_none
       THEN SReturn(<<>>, "none")
       ELSE sr' = [sr EXCEPT !.pc = "sims"] /\ UNCHANGED answer
    /\ UNCHANGED <<embeddings, metadata, embeddings_array, embeddings_file, metadata_file,
                   instance, fresh, faults, last, wr, calls, info, started, reply>>

\* similarities = cosine_similarity(query_array, self._embeddings_array)[0]
\* (with None for the second argument sklearn compares the query with itself)
SSimilarities ==
    /\ sr.pc = "sims"
    /\ IF embeddings_array.is_none
       THEN sr' = [sr EXCEPT !.pc = "item",
                             !.similarities = <<CosineSimilarity(sr.query, sr.query)>>]
            /\ UNCHANGED answer
       ELSE IF Len(embeddings_array.rows[1]) # Len(sr.query)
       THEN SReturn(<<>>, "ValueError")
       ELSE sr' = [sr EXCEPT !.pc = "item",
                             !.similarities = [i \in 1..Len(embeddings_array.rows) |->
                                  CosineSimilarity(sr.query, embeddings_array.rows[i])]]
            /\ UNCHANGED answer
    /\ UNCHANGED <<embeddings, metadata, embeddings_array, embeddings_file, metadata_file,
                   instance, fresh, faults, last, wr, calls, info, started, reply>>

\* the rows from i on whose similarity passes the threshold, 0-based
RowsLeft ==
    {j \in sr.i..(Len(sr.similarities) - 1) :
        PassesThreshold(sr.similarities[j + 1], sr.threshold)}

\* the comprehension moves to the next row that passes and evaluates
\* self.metadata[i]; with no row left the list is sorted, cut and returned
SItem ==
    /\ sr.pc = "item"
    /\ IF RowsLeft = {}
       THEN SReturn(TopK(SortDesc(sr.found), sr.top_k), "none")
       ELSE LET j == CHOOSE j \in RowsLeft : \A k \in RowsLeft : j <= k
            IN IF j >= Len(metadata)
               THEN SReturn(<<>>, "IndexError")
               ELSE sr' = [sr EXCEPT !.pc = "text", !.i = j, !.held = <<metadata[j + 1]>>]
                    /\ UNCHANGED answer
    /\ UNCHANGED <<embeddings, metadata, embeddings_array, embeddings_file, metadata_file,
                   instance, fresh, faults, last, wr, calls, info, started, reply>>

\* the comprehension evaluates self.metadata[i]['text'] and adds the entry
SText ==
    /\ sr.pc = "text"
    /\ IF sr.i >= Len(metadata)
       THEN SReturn(<<>>, "IndexError")
       ELSE sr' = [sr EXCEPT !.pc = "item", !.i = sr.i + 1, !.held = <<>>,
                             !.found = Append(sr.found,
                                 [metadata |-> sr.held[1],
                                  similarity |-> sr.similarities[sr.i + 1],
                                  text |-> metadata[sr.i + 1].text,
                                  row |-> sr.i])]
            /\ UNCHANGED answer
    /\ UNCHANGED <<embeddings, metadata, embeddings_array, embeddings_file, metadata_file,
                   instance, fresh, faults, last, wr, calls, info, started, reply>>

WriterStep(t) ==
    \/ WIndices(t)
    \/ WDelEmbedding(t)
    \/ WDelMetadata(t)
    \/ WReindex(t)
    \/ WClearEmbeddings(t)
    \/ WClearMetadata(t)
    \/ WAppendEmbedding(t)
    \/ WAppendMetadata(t)
    \/ WSaveEmbeddings(t)
    \/ WSaveMetadata(t)
    \/ WUpdateCache(t)

SearcherStep == SCheck \/ SSimilarities \/ SItem \/ SText

\* the items and the queries of the interleaved runs: each text has one vector
ConcChunks == {PlainChunk, PageChunk}

ConcQueries == { <<1, 0>>, <<1, 1>> }

\* a store that an earlier run left at the location, loaded by the constructor
EmptyDb ==
    [embeddings |-> <<>>, metadata |-> <<>>, embeddings_array |-> None,
     embeddings_file |-> Absent, metadata_file |-> Absent]

InitFrom(chunkSeqs) ==
    /\ \E csA, csB \in chunkSeqs :
          LET db == AddPdfEmbeddingsOp(
                        AddPdfEmbeddingsOp(EmptyDb, "A", csA, "ok", "ok").db,
                        "B", csB, "ok", "ok").db
          IN /\ Len(csA) + Len(csB) <= MaxRecords
             /\ embeddings = db.embeddings
             /\ metadata = db.metadata
             /\ embeddings_array = db.embeddings_array
             /\ embeddings_file = db.embeddings_file
             /\ metadata_file = db.metadata_file
             /\ fresh = (db.embeddings = <<>>)
    /\ instance = "live"
    /\ faults = 0
    /\ last = Call("init", "", <<>>, "none")
    /\ answer = NoAnswer
    /\ info = NoInfo
    /\ reply = NoReply
    /\ wr = [t \in Writers |-> IdleWriter]
    /\ sr = IdleSearcher
    /\ calls = 0
    /\ started = [db |-> CurrentDb, calls |-> <<>>]

InitConc == InitFrom(SeqsOf(ConcChunks))

NextConc ==
    \/ \E n \in Names, cs \in SeqsOf(ConcChunks) : WStart("w1", "add", n, cs)
    \/ \E n \in Names : WStart("w1", "remove", n, <<>>)
    \/ WStart("w1", "clear", "", <<>>)
    \/ WriterStep("w1")
    \/ \E q \in ConcQueries, k \in TopKs : SStart(q, k, 700)
    \/ SearcherStep
    \/ Discard

SpecConc == InitConc /\ [][NextConc]_vars

\* two threads in mutating calls of the one shared object, the documents
\* having one chunk at most
OneChunkSeqs == {cs \in SeqsOf(ConcChunks) : Len(cs) <= 1}

InitWriters == InitFrom(OneChunkSeqs)

NextWriters ==
    \/ \E t \in Writers, n \in Names, cs \in OneChunkSeqs : WStart(t, "add", n, cs)
    \/ \E t \in Writers, n \in Names : WStart(t, "remove", n, <<>>)
    \/ \E t \in Writers : WStart(t, "clear", "", <<>>)
    \/ \E t \in Writers : WriterStep(t)

SpecWriters == InitWriters /\ [][NextWriters]_vars

\* the process dies while thread t is inside a mutating call; the next process
\* constructs EmbeddingDatabase(db_path) on the files the dead one left
Crash(t) ==
    /\ wr[t].pc # "idle"
    /\ LET r == LoadDatabase(CurrentDb)
       IN /\ Commit(IF r.exc = "none" THEN r.db
                    ELSE [r.db EXCEPT !.embeddings = <<>>, !.metadata = <<>>])
          /\ instance' = IF r.exc = "none" THEN "live" ELSE "none"
          /\ fresh' = (r.exc = "none" /\ r.db.embeddings = <<>> /\ r.db.metadata = <<>>)
          /\ last' = Call("crash", wr[t].pdf_name, wr[t].items, r.exc)
    /\ wr' = [u \in Writers |-> IdleWriter]
    /\ UNCHANGED <<faults, answer, info, reply, sr, calls, started>>

\* one thread in mutating calls, the process dying at any statement of a call,
\* the documents having one chunk at most
NextCrash ==
    \/ \E n \in Names, cs \in OneChunkSeqs : WStart("w1", "add", n, cs)
    \/ \E n \in Names : WStart("w1", "remove", n, <<>>)
    \/ WStart("w1", "clear", "", <<>>)
    \/ WriterStep("w1")
    \/ Crash("w1")

SpecCrash == InitWriters /\ [][NextCrash]_vars

\* ----------------------------------------------------------------------
\* Vocabulary of the properties
\* ----------------------------------------------------------------------
\* this step is a call of the mutating method `op` (searches and statistics
\* leave `last` alone and change `answer` or `info`)
Mutation(op) == answer' = answer /\ info' = info /\ reply' = reply /\ last'.op = op

\* 1-based positions of the dicts whose pdf_name is / is not `pdf_name`
Owned(metas, pdf_name) ==
    SelectSeq([i \in 1..Len(metas) |-> i], LAMBDA i : metas[i].pdf_name = pdf_name)

Others(metas, pdf_name) ==
    SelectSeq([i \in 1..Len(metas) |-> i], LAMBDA i : metas[i].pdf_name # pdf_name)

Aligned ==
    /\ Len(embeddings) = Len(metadata)
    /\ \A i \in 1..Len(metadata) : metadata[i].embedding_index = i - 1

\* the live records a query can be compared with, and their similarity
Comparable(q) == {p \in 1..Len(embeddings) : Len(embeddings[p]) = Len(q)}

AboveThreshold(q, t) == {p \in Comparable(q) : CosineSimilarity(q, embeddings[p]) >= t}

Returned(p) == \E k \in 1..Len(answer.results) : answer.results[k].row = p - 1

Searched == answer.held /\ answer.exc = "none"

\* ----------------------------------------------------------------------
\* C1
\* ----------------------------------------------------------------------
\* C1 (as claimed): on an instance that started from an empty store, after any
\* call of add_pdf_embeddings, remove_pdf_embeddings or clear_database has
\* returned, the two lists have the same length and the dict at position i has
\* embedding_index i.
C1_AlignmentAfterCalls ==
    (instance = "live" /\ fresh /\ last.op \in {"add", "remove", "clear"} /\ last.exc = "none")
        => Aligned

\* ----------------------------------------------------------------------
\* C2
\* ----------------------------------------------------------------------
\* C2 (as claimed): after add_pdf_embeddings(N, chunks) has returned, the
\* records named N are exactly len(chunks) records with chunk_id 0.. in order,
\* with the texts and vectors of this call; and no two live records share
\* (pdf_name, chunk_id) once a call has returned.
C2_IdempotentReplace ==
    /\ (last.op = "add" /\ last.exc = "none") =>
          LET own == Owned(metadata, last.pdf_name)
              cs == last.embeddings_data
          IN /\ Len(own) = Len(cs)
             /\ \A k \in 1..Len(own) :
                   /\ metadata[own[k]].chunk_id = k - 1
                   /\ metadata[own[k]].text = cs[k].text
                   /\ own[k] <= Len(embeddings)
                   /\ embeddings[own[k]] = cs[k].embedding
    /\ (instance = "live" /\ last.exc = "none") =>
          \A i, j \in 1..Len(metadata) :
             (metadata[i].pdf_name = metadata[j].pdf_name
                /\ metadata[i].chunk_id = metadata[j].chunk_id) => i = j

\* ----------------------------------------------------------------------
\* C3
\* ----------------------------------------------------------------------
\* C3 (as claimed): remove_pdf_embeddings(N) deletes exactly the records named
\* N; the others keep vector, text, chunk_id and order and get embedding_index
\* 0..k-1; when N is not present the call raises nothing and the records are
\* unchanged.
C3_RemovalCorrect ==
    [][Mutation("remove") =>
         LET keep == Others(metadata, last'.pdf_name)
         IN /\ Len(embeddings) = Len(metadata) =>
                 /\ embeddings' = [k \in 1..Len(keep) |-> embeddings[keep[k]]]
                 /\ metadata' = [k \in 1..Len(keep) |->
                                    [metadata[keep[k]] EXCEPT !["embedding_index"] = k - 1]]
            /\ Len(keep) = Len(metadata) =>
                 /\ last'.exc = "none"
                 /\ embeddings' = embeddings
                 /\ metadata' = metadata]_vars

\* ----------------------------------------------------------------------
\* C4
\* ----------------------------------------------------------------------
\* the vectors of `items` do not all have the length of the live vectors
DimensionMismatch(items) ==
    \/ \E i, j \in 1..Len(items) : Len(items[i].embedding) # Len(items[j].embedding)
    \/ \E i \in 1..Len(items), p \in 1..Len(embeddings) :
          Len(items[i].embedding) # Len(embeddings[p])

\* C4 (as claimed): add_pdf_embeddings with a vector of another length than
\* the store's fails and leaves lists and files as they were before the call;
\* so the live vectors always have one length.
C4_AtomicRejection ==
    [][/\ (Mutation("add") /\ DimensionMismatch(last'.embeddings_data)) =>
             /\ last'.exc # "none"
             /\ embeddings' = embeddings
             /\ metadata' = metadata
             /\ embeddings_file' = embeddings_file
             /\ metadata_file' = metadata_file
       /\ Homogeneous(embeddings')]_vars

\* ----------------------------------------------------------------------
\* C5
\* ----------------------------------------------------------------------
\* C5: once add_pdf_embeddings, remove_pdf_embeddings or clear_database has
\* returned without raising, a new instance on the same location loads
\* exactly the vectors and dicts the first instance holds, in order.
C5_RoundTrip ==
    (instance = "live" /\ last.op \in {"add", "remove", "clear"} /\ last.exc = "none") =>
        LET r == LoadDatabase(CurrentDb)
        IN /\ r.exc = "none"
           /\ r.db.embeddings = embeddings
           /\ r.db.metadata = metadata

\* a replace of two records with extra metadata has returned after an
\* earlier write had failed
C5_Witness ==
    /\ instance = "live" /\ last.op = "add" /\ last.exc = "none" /\ faults > 0
    /\ Len(last.embeddings_data) = 2 /\ Len(embeddings) = 3
    /\ \E i \in 1..Len(metadata) : "page_num" \in DOMAIN metadata[i]

\* ----------------------------------------------------------------------
\* C6
\* ----------------------------------------------------------------------
\* the vector an item of the interleaved runs is stored with
EmbeddingOfText(text) == (CHOOSE c \in ConcChunks : c.text = text).embedding

\* C6 (as claimed): a search that runs while another thread adds, removes or
\* clears never fails on an index past the end of self.metadata, and every
\* entry it returns pairs a dict and a text with the similarity of that
\* record's own vector.
C6_ReaderWriterExclusion ==
    answer.held =>
        /\ answer.exc = "none"
        /\ \A k \in 1..Len(answer.results) :
              LET r == answer.results[k]
              IN /\ r.text = r.metadata.text
                 /\ r.similarity =
                       CosineSimilarity(answer.query, EmbeddingOfText(r.metadata.text))

\* ----------------------------------------------------------------------
\* C7
\* ----------------------------------------------------------------------
\* C7 (as claimed): every returned result has similarity >= threshold, and a
\* live record with similarity >= threshold is left out only when top_k
\* results that rank before it are returned.
C7_Threshold ==
    Searched =>
        /\ \A k \in 1..Len(answer.results) : answer.results[k].similarity >= answer.threshold
        /\ \A p \in AboveThreshold(answer.query, answer.threshold) :
              ~Returned(p) =>
                 /\ Len(answer.results) = answer.top_k
                 /\ \A k \in 1..Len(answer.results) :
                       LET r == answer.results[k]
                           sim == CosineSimilarity(answer.query, embeddings[p])
                       IN r.similarity > sim \/ (r.similarity = sim /\ r.row < p - 1)

\* ----------------------------------------------------------------------
\* C8
\* ----------------------------------------------------------------------
\* C8 (as claimed): a search returns exactly min(top_k, number of records with
\* similarity >= threshold) results, by non-increasing similarity, and no
\* record left out is more similar than a returned one.
C8_TopK ==
    Searched =>
        LET above == AboveThreshold(answer.query, answer.threshold)
            n == Cardinality(above)
        IN /\ Len(answer.results) = IF answer.top_k < n THEN answer.top_k ELSE n
           /\ \A k \in 1..(Len(answer.results) - 1) :
                 answer.results[k].similarity >= answer.results[k + 1].similarity
           /\ \A p \in above : ~Returned(p) =>
                 \A k \in 1..Len(answer.results) :
                    CosineSimilarity(answer.query, embeddings[p]) <= answer.results[k].similarity

\* ----------------------------------------------------------------------
\* C9
\* ----------------------------------------------------------------------
\* the rows of the cached matrix that pass the threshold of the held answer
PassingRows ==
    IF embeddings_array.is_none THEN {}
    ELSE {i \in 0..(Len(embeddings_array.rows) - 1) :
             CosineSimilarity(answer.query, embeddings_array.rows[i + 1]) >= answer.threshold}

\* C9: results of equal similarity are returned in ascending slot position, and
\* when top_k cuts a group of equal similarity the lower slots are the ones kept.
C9_TieBreak ==
    Searched =>
        /\ \A j, k \in 1..Len(answer.results) :
              (j < k /\ answer.results[j].similarity = answer.results[k].similarity)
                 => answer.results[j].row < answer.results[k].row
        /\ \A i \in PassingRows :
              (\A k \in 1..Len(answer.results) : answer.results[k].row # i) =>
                 \A k \in 1..Len(answer.results) :
                    answer.results[k].similarity =
                          CosineSimilarity(answer.query, embeddings_array.rows[i + 1])
                       => answer.results[k].row < i

\* three records tie, two are returned and the third is cut
C9_Witness ==
    /\ Searched
    /\ Len(answer.results) = 2
    /\ answer.results[1].similarity = answer.results[2].similarity
    /\ \E i \in PassingRows :
          /\ \A k \in 1..2 : answer.results[k].row # i
          /\ CosineSimilarity(answer.query, embeddings_array.rows[i + 1])
                = answer.results[1].similarity

\* ----------------------------------------------------------------------
\* C10
\* ----------------------------------------------------------------------
\* C10 (as claimed): a store opened on a location holding exactly one of the
\* two files has no vectors and no dicts.
C10_NoPartialLoad ==
    (last.op = "open"
       /\ (embeddings_file.st = "absent") # (metadata_file.st = "absent"))
        => (embeddings = <<>> /\ metadata = <<>>)

\* ----------------------------------------------------------------------
\* C11
\* ----------------------------------------------------------------------
\* what a caller can observe of a store: the chunk count, the names, and the
\* outcome of every search
Observable(db) ==
    [total_chunks |-> GetTotalChunks(db),
     pdf_names |-> {db.metadata[i].pdf_name : i \in 1..Len(db.metadata)},
     searches |-> [q \in Queries, k \in TopKs, t \in Thresholds |->
                     SearchSimilarChunksOp(db, q, k, t)]]

\* C11 (as claimed): when add_pdf_embeddings fails because a write of the
\* persisted files failed, get_total_chunks, get_all_pdf_names and
\* search_similar_chunks answer afterwards as they did before the call.
C11_AtomicAddOnWriteFailure ==
    [][(Mutation("add") /\ last'.exc = "OSError")
          => Observable(CurrentDb') = Observable(CurrentDb)]_vars

\* ----------------------------------------------------------------------
\* C12
\* ----------------------------------------------------------------------
\* the store after the mutating call `c` has run alone on `db`
ApplyCall(db, c) ==
    CASE c.op = "add" -> AddPdfEmbeddingsOp(db, c.pdf_name, c.embeddings_data, "ok", "ok").db
      [] c.op = "remove" -> RemovePdfEmbeddingsOp(db, c.pdf_name, "ok").db
      [] OTHER -> ClearDatabaseOp(db, "ok").db

\* C12 (as claimed): when two mutating calls that overlapped have both
\* returned, the store is what running the two one after the other, in one of
\* the two orders, leaves; in particular the lists are aligned.
C12_WriterWriterExclusion ==
    (Len(started.calls) = 2 /\ \A t \in Writers : wr[t].pc = "idle") =>
        LET c1 == started.calls[1]
            c2 == started.calls[2]
        IN /\ last.exc = "none"
           /\ CurrentDb \in {ApplyCall(ApplyCall(started.db, c1), c2),
                              ApplyCall(ApplyCall(started.db, c2), c1)}
           /\ Aligned

\* ----------------------------------------------------------------------
\* C13
\* ----------------------------------------------------------------------
\* this step hands a caller the outcome of search_similar_chunks, or of the
\* statistics methods
Delivers == (answer'.held /\ ~answer.held) \/ (info'.held /\ ~info.held)

\* C13: a call of search_similar_chunks, get_all_pdf_names, get_total_chunks
\* or get_database_stats leaves the two lists, the cache and the two files as
\* they were, and no mutating call is made on its behalf.
C13_SearchSideEffectFree ==
    [][Delivers =>
          /\ embeddings' = embeddings
          /\ metadata' = metadata
          /\ embeddings_array' = embeddings_array
          /\ embeddings_file' = embeddings_file
          /\ metadata_file' = metadata_file
          /\ last' = last]_vars

\* a search has returned two results from a store of three records
C13_Witness ==
    /\ Searched
    /\ Len(answer.results) = 2
    /\ Len(embeddings) = 3
    /\ embeddings_file.st = "ok"

\* ----------------------------------------------------------------------
\* C14
\* ----------------------------------------------------------------------
\* a metadata dict without its position field
Content(meta) == [k \in (DOMAIN meta) \ {"embedding_index"} |-> meta[k]]

\* C14 (as claimed): add_pdf_embeddings(N, chunks), when it returns, has put
\* the records of the chunks, in chunk order and under the name N, behind the
\* records of the other documents, which keep vector, text, chunk_id, extra
\* metadata and relative order.
C14_AppendOrder ==
    [][(Mutation("add") /\ last'.exc = "none" /\ Len(embeddings) = Len(metadata)) =>
          LET N == last'.pdf_name
              cs == last'.embeddings_data
              keep == Others(metadata, N)
              n == Len(keep)
          IN /\ Len(embeddings') = n + Len(cs)
             /\ Len(metadata') = n + Len(cs)
             /\ \A k \in 1..n :
                   /\ embeddings'[k] = embeddings[keep[k]]
                   /\ Content(metadata'[k]) = Content(metadata[keep[k]])
             /\ \A k \in 1..Len(cs) :
                   /\ embeddings'[n + k] = cs[k].embedding
                   /\ metadata'[n + k].text = cs[k].text
                   /\ metadata'[n + k].pdf_name = N
             /\ Others(metadata', N) = [k \in 1..n |-> k]]_vars

\* ----------------------------------------------------------------------
\* C15
\* ----------------------------------------------------------------------
\* C15: constructing a store on a location without files succeeds and gives
\* an empty store; constructing it on a location with a file that cannot be
\* read raises to the caller; and a construction never changes the files.
C15_LoadErrors ==
    [][Mutation("open") =>
          /\ (embeddings_file.st = "absent" /\ metadata_file.st = "absent") =>
                 /\ last'.exc = "none"
                 /\ instance' = "live"
                 /\ embeddings' = <<>> /\ metadata' = <<>>
                 /\ embeddings_array' = None
          /\ (embeddings_file.st = "corrupt" \/ metadata_file.st = "corrupt") =>
                 /\ last'.exc # "none"
                 /\ instance' = "none"
          /\ embeddings_file' = embeddings_file
          /\ metadata_file' = metadata_file]_vars

\* a construction has failed on a location whose metadata.json is damaged
\* and whose embeddings.pkl holds a vector
C15_Witness ==
    /\ last.op = "open" /\ last.exc = "JSONDecodeError"
    /\ instance = "none"
    /\ metadata_file.st = "corrupt"
    /\ embeddings_file.st = "ok" /\ embeddings_file.data # <<>>

\* ----------------------------------------------------------------------
\* C16
\* ----------------------------------------------------------------------
\* C16 (as claimed): a search on a store that holds no record returns the
\* empty list and raises nothing, whatever the query, top_k and threshold.
C16_EmptyStoreSearch ==
    (answer.held /\ embeddings = <<>> /\ metadata = <<>>) =>
        (answer.exc = "none" /\ answer.results = <<>>)

\* ----------------------------------------------------------------------
\* C17
\* ----------------------------------------------------------------------
\* the names under which at least one dict of self.metadata is filed
OwningNames == {metadata[i].pdf_name : i \in 1..Len(metadata)}

\* the elements of a list
Elements(l) == {l[i] : i \in 1..Len(l)}

\* C17 (as claimed): get_total_chunks is the number of live records (vectors
\* with their dicts), get_all_pdf_names lists each name that owns a record
\* once and no other name, get_database_stats repeats the two, and a name
\* that was removed or replaced by no chunks is not listed.
C17_Statistics ==
    info.held =>
        /\ info.total_chunks = Len(embeddings)
        /\ info.total_chunks = Len(metadata)
        /\ Elements(info.pdf_names) = OwningNames
        /\ Len(info.pdf_names) = Cardinality(OwningNames)
        /\ info.stats.total_chunks = info.total_chunks
        /\ info.stats.total_pdfs = Cardinality(OwningNames)
        /\ Elements(info.stats.pdf_names) = OwningNames
        /\ (last.exc = "none"
              /\ (last.op = "remove" \/ (last.op = "add" /\ last.embeddings_data = <<>>)))
             => last.pdf_name \notin Elements(info.pdf_names)

\* ----------------------------------------------------------------------
\* C18
\* ----------------------------------------------------------------------
\* C18: when clear_database has returned, the lists are empty, the cache is
\* None, a new instance on the location loads nothing, and a second
\* clear_database changes nothing.
C18_Clear ==
    [][(Mutation("clear") /\ last'.exc = "none") =>
          /\ embeddings' = <<>>
          /\ metadata' = <<>>
          /\ embeddings_array' = None
          /\ LET r == LoadDatabase(CurrentDb')
             IN r.exc = "none" /\ r.db.embeddings = <<>> /\ r.db.metadata = <<>>
          /\ ClearDatabaseOp(CurrentDb', "ok") = Ok(CurrentDb')]_vars

\* clear_database has returned on an instance that had loaded records, after
\* a write had failed
C18_Witness ==
    /\ last.op = "clear" /\ last.exc = "none"
    /\ instance = "live" /\ ~fresh /\ faults > 0
    /\ embeddings = <<>>
    /\ embeddings_file.st = "ok" /\ metadata_file.st = "ok"

\* ----------------------------------------------------------------------
\* C19
\* ----------------------------------------------------------------------
\* C19 (as claimed): on a store that is not empty and whose vectors all have
\* length D, a search with a query of another length raises the dimension
\* error of the similarity computation, returns no list, and leaves the
\* store as it was.
C19_QueryDimension ==
    [][(/\ answer'.held /\ ~answer.held
        /\ embeddings # <<>> /\ Homogeneous(embeddings)
        /\ Len(answer'.query) # Len(embeddings[1])) =>
          /\ answer'.exc = "ValueError"
          /\ answer'.results = <<>>
          /\ embeddings' = embeddings
          /\ metadata' = metadata
          /\ embeddings_array' = embeddings_array
          /\ embeddings_file' = embeddings_file
          /\ metadata_file' = metadata_file]_vars

\* ----------------------------------------------------------------------
\* C20
\* ----------------------------------------------------------------------
\* C20: when the embedder fails for a question, _ask calls no search, and
\* what it hands its caller differs from what it hands over when a search
\* found no chunk above the threshold.
C20_EmbedderFailure ==
    (reply.held /\ ~reply.embedded) =>
        /\ ~reply.searched
        /\ reply.exc # "none" \/ reply.out # NoChunksReply

\* the embedder has failed for a question put to a chatbot whose store holds
\* records
C20_Witness ==
    /\ reply.held /\ ~reply.embedded
    /\ Len(embeddings) = 2

\* ----------------------------------------------------------------------
\* C21
\* ----------------------------------------------------------------------
\* the lists the two files hold, a file not there holding none
PersistedEmbeddings ==
    IF embeddings_file.st = "ok" THEN PickleLoad(embeddings_file.data) ELSE <<>>

PersistedMetadata ==
    IF metadata_file.st = "ok" THEN JsonLoad(metadata_file.data) ELSE <<>>

\* C21 (as claimed): at every statement of a mutating call, between the write
\* of embeddings.pkl and the write of metadata.json included, the two files
\* hold lists of one length, and the store opened after a crash has, before
\* any further call, as many vectors as dicts.
C21_FilesLengthMatched ==
    /\ Len(PersistedEmbeddings) = Len(PersistedMetadata)
    /\ (last.op = "crash" /\ \A t \in Writers : wr[t].pc = "idle")
          => Len(embeddings) = Len(metadata)

\* ----------------------------------------------------------------------
\* C22
\* ----------------------------------------------------------------------
\* C22 (as claimed): once add_pdf_embeddings, remove_pdf_embeddings or
\* clear_database has returned or raised, self._embeddings_array is None with
\* no vector in the store, or holds one row per vector, row i being vector i.
C22_CacheFresh ==
    (instance = "live" /\ last.op \in {"add", "remove", "clear"})
        => IF embeddings = <<>>
           THEN embeddings_array = None
           ELSE embeddings_array = Array(embeddings)

\* ----------------------------------------------------------------------
\* C23
\* ----------------------------------------------------------------------
\* the fields the store assigns to the record of the chunk at position p
\* (from 0) of an add for N, the record standing at store position pos (from 0)
CoreFields(rec, N, p, item, pos) ==
    /\ rec.pdf_name = N
    /\ rec.chunk_id = p
    /\ rec.text = item.text
    /\ rec.embedding_index = pos

\* every entry of the item's extra metadata is on the record, value unchanged
ExtraKept(rec, item) ==
    \A k \in DOMAIN item.metadata : k \in DOMAIN rec /\ rec[k] = item.metadata[k]

\* C23 (as claimed): add_pdf_embeddings(N, chunks), when it returns, has
\* stored for the chunk at position p a record with pdf_name N, chunk_id p,
\* the chunk's text and embedding_index equal to the record's position in the
\* store, whatever keys the chunk's extra metadata has, and the record carries
\* every entry of the extra metadata unchanged.
C23_CoreFields ==
    [][(Mutation("add") /\ last'.exc = "none") =>
          LET N == last'.pdf_name
              cs == last'.embeddings_data
              base == Len(metadata') - Len(cs)
          IN \A k \in 1..Len(cs) :
                /\ CoreFields(metadata'[base + k], N, k - 1, cs[k], base + k - 1)
                /\ ExtraKept(metadata'[base + k], cs[k])]_vars

====
